---------------------------- MODULE Spec2Model ----------------------------
(***************************************************************************)
(* A model of the NBT editor (src/src/main.rs): the document set           *)
(* (Tabs.buffers), the dock layout (NBTEditor.state), the ingest function  *)
(* read_nbt_file, and the tree walker push_nbt_map / push_nbt_value /      *)
(* push_array / push_collapsing that renders a document every frame.       *)
(*                                                                         *)
(* The rendering toolkit is represented by what the walker hands to it: a  *)
(* sequence of instructions, each with the id the toolkit derives for it   *)
(* from the enclosing push_id calls, and by the one piece of toolkit state *)
(* the walker depends on, the open/closed flag of every collapsible        *)
(* region, which decides whether the region's body closure runs.           *)
(***************************************************************************)
EXTENDS Integers, Sequences, FiniteSets, TLC

VARIABLES
    buffers,   \* Tabs.buffers: title -> NBTMap (a sequence of <<key, value>>)
    state,     \* NBTEditor.state: the main surface's leaf, [tabs, active]
    running,   \* FALSE once a panic has ended the process
    toggled,   \* toolkit memory: the regions whose open flag differs from its default
    lastOpen,  \* <<>>, or <<r>>: what read_nbt_file did in the last Open
    lastOp,    \* the user event the last update() handled
    frame      \* <<>> before the first update(), then <<f>>: what the last one drew

vars == <<buffers, state, running, toggled, lastOpen, lastOp, frame>>

-----------------------------------------------------------------------------
(* Bounds *)

\* The largest number of values (array elements included) in a generated document.
MaxNodes == 3

\* Open is disabled once the leaf holds this many tabs.
MaxTabs == 2

\* At most this many headers are held away from their default open flag.
MaxToggled == 2

-----------------------------------------------------------------------------
(* Tagged values (nbt::tag::NBTValue, NBTMap) *)

ArrayTags == {"ByteArray", "IntArray", "LongArray"}

\* A scalar; text is what its Display implementation prints.
Scalar(tag, text) ==
    [tag |-> tag, text |-> text, elems |-> <<>>, list |-> <<>>, map |-> <<>>]

\* ByteArray / IntArray / LongArray: a sequence of integers.
Array(tag, elems) ==
    [tag |-> tag, text |-> "", elems |-> elems, list |-> <<>>, map |-> <<>>]

\* List: a sequence of unnamed values.
List(values) ==
    [tag |-> "List", text |-> "", elems |-> <<>>, list |-> values, map |-> <<>>]

\* Compound: a sequence of <<key, value>> in stored order, keys unique.
Compound(entries) ==
    [tag |-> "Compound", text |-> "", elems |-> <<>>, list |-> <<>>, map |-> entries]

\* The keys given to the entries of a generated compound, in stored order,
\* which is not the sorted order.
Keys == <<"b", "a", "c", "d", "e", "f">>

WithKeys(keys, values) == [i \in 1..Len(values) |-> <<keys[i], values[i]>>]

GenScalars == { Scalar("Byte", "1"), Scalar("Short", "2"), Scalar("String", "s") }

RECURSIVE ValuesOfSize(_), ForestsOfSize(_)

\* All sequences of values holding n values in total.
ForestsOfSize(n) ==
    IF n = 0 THEN { <<>> }
    ELSE UNION { { <<v>> \o f : v \in ValuesOfSize(s), f \in ForestsOfSize(n - s) }
                 : s \in 1..n }

\* All values made of exactly n values (itself, its descendants, its array elements).
ValuesOfSize(n) ==
    IF n = 0 THEN {}
    ELSE (IF n = 1 THEN GenScalars ELSE {})
         \cup { Array("ByteArray", [i \in 1..(n - 1) |-> i]) }
         \cup { List(f) : f \in ForestsOfSize(n - 1) }
         \cup { Compound(WithKeys(Keys, f)) : f \in ForestsOfSize(n - 1) }

\* The documents a decoder may return: root compounds of at most MaxNodes values.
Roots ==
    UNION { { WithKeys(Keys, f) : f \in ForestsOfSize(n) } : n \in 0..MaxNodes }


-----------------------------------------------------------------------------
(* The rendering toolkit, as the walker sees it *)

\* One id source handed to push_id (a usize) or to a collapsing header (its label).
IdU(n) == [src |-> "usize", n |-> n, s |-> ""]
IdS(s) == [src |-> "str", n |-> 0, s |-> s]

\* ui.label(text) issued inside the push_id scopes `chain`, for the node at `path`.
Line(text, chain, path) ==
    [kind |-> "line", text |-> text, id |-> chain, path |-> path]

\* ui.collapsing(label, ..) issued inside the push_id scopes `chain`.
Region(label, chain, path) ==
    [kind |-> "region", text |-> label, id |-> chain \o <<IdS(label)>>, path |-> path]

\* The push_id scope an array opens around its elements; it draws nothing itself.
ArrayScope(chain, path) ==
    [kind |-> "array", text |-> "", id |-> chain, path |-> path]

\* The ids open in one scope of the toolkit's memory: a collapsing region is
\* closed until its header is clicked.
OpenIn(scope, tog) == { k.id : k \in { x \in tog : x.scope = scope } }

RECURSIVE Flatten(_)
Flatten(seqs) ==
    IF seqs = <<>> THEN <<>> ELSE Head(seqs) \o Flatten(Tail(seqs))

-----------------------------------------------------------------------------
(* The tree walker.  The `ui` argument of the source is the triple           *)
(* (chain, path, open): the ids pushed so far, the position of the node in   *)
(* the document, and the regions the toolkit holds open.                     *)

\* push_array: counter += 1; push_id(counter) { for each: counter += 1; push_id(counter) { label } }
PushArray(array, chain, path, counter) ==
    LET c1 == counter + 1 IN
    <<ArrayScope(chain \o <<IdU(c1)>>, path)>>
    \o [i \in 1..Len(array) |->
            Line(ToString(array[i]), chain \o <<IdU(c1), IdU(c1 + i)>>, path \o <<i>>)]

RECURSIVE PushNbtValue(_, _, _, _, _, _), PushCollapsing(_, _, _, _, _, _)

\* push_collapsing with the body drawn whether or not the region is open.
PushCollapsingAlwaysOpen(label, elements, counter, chain, path, open) ==
    LET c1 == counter + 1
        scope == chain \o <<IdU(c1)>>
    IN  <<Region(label, scope, path)>>
        \o Flatten([i \in 1..Len(elements) |->
                 PushNbtValue(elements[i][1], elements[i][2],
                              scope \o <<IdU(c1 + i)>>, c1 + i, path \o <<i>>, open)])

\* push_collapsing with the region left out when there is nothing to put in it.
PushCollapsingHidesEmpty(label, elements, counter, chain, path, open) ==
    LET c1 == counter + 1
        scope == chain \o <<IdU(c1)>>
        region == Region(label, scope, path)
    IN  IF elements = <<>> THEN <<>>
        ELSE <<region>>
             \o (IF region.id \in open
                 THEN Flatten([i \in 1..Len(elements) |->
                          PushNbtValue(elements[i][1], elements[i][2],
                                       scope \o <<IdU(c1 + i)>>, c1 + i, path \o <<i>>, open)])
                 ELSE <<>>)

\* push_collapsing: counter += 1; push_id(counter) { collapsing(label) { for each:
\* counter += 1; push_id(counter) { push_nbt_value(key, value, ui, counter) } } }
PushCollapsing(label, elements, counter, chain, path, open) ==
    LET c1 == counter + 1
        scope == chain \o <<IdU(c1)>>
        region == Region(label, scope, path)
    IN  <<region>>
        \o (IF region.id \in open
            THEN Flatten([i \in 1..Len(elements) |->
                     PushNbtValue(elements[i][1], elements[i][2],
                                  scope \o <<IdU(c1 + i)>>, c1 + i, path \o <<i>>, open)])
            ELSE <<>>)

\* push_nbt_value
PushNbtValue(name, tag, chain, counter, path, open) ==
    LET label == IF name # "" THEN name \o ": " ELSE "" IN
    CASE tag.tag = "Byte" ->
            <<Line(label \o tag.text, chain \o <<IdU(counter)>>, path)>>
      [] tag.tag \in {"Short", "Int", "Long", "Float", "Double"} ->
            <<Line(label \o tag.text, chain, path)>>
      [] tag.tag = "String" ->
            <<Line(tag.text, chain, path)>>
      [] tag.tag = "List" ->
            PushCollapsing(label, [i \in 1..Len(tag.list) |-> <<"", tag.list[i]>>],
                           counter, chain, path, open)
      [] tag.tag = "Compound" ->
            PushCollapsing(IF label = "" THEN ToString(Len(tag.map)) \o " entries" ELSE label,
                           tag.map, counter, chain, path, open)
      [] tag.tag \in ArrayTags ->
            PushArray(tag.elems, chain, path, counter)

\* push_nbt_map: every entry of the root is pushed with the same counter.
PushNbtMap(map, chain, counter, open) ==
    Flatten([i \in 1..Len(map) |->
                PushNbtValue(map[i][1], map[i][2], chain, counter, <<i>>, open)])


-----------------------------------------------------------------------------
(* Ingest: read_nbt_file *)

GZIP_SIGNATURE == <<31, 139>>
ZLIB_SIGNATURES == << <<120, 1>>, <<120, 94>>, <<120, 156>>, <<120, 218>> >>

\* The branch taken when only the first byte of a zlib header is compared.
SniffDecoderFirstByte(buffer) ==
    IF buffer = GZIP_SIGNATURE THEN "gzip"
    ELSE IF \E i \in 1..Len(ZLIB_SIGNATURES) : ZLIB_SIGNATURES[i][1] = buffer[1] THEN "zlib"
    ELSE "raw"

\* The branch read_nbt_file takes for the two bytes it peeked.
SniffDecoder(buffer) ==
    IF buffer = GZIP_SIGNATURE THEN "gzip"
    ELSE IF \E i \in 1..Len(ZLIB_SIGNATURES) : ZLIB_SIGNATURES[i] = buffer THEN "zlib"
    ELSE "raw"

\* file.seek(SeekFrom::Start(offset)) from position pos: the new position.
SeekStart(pos, offset) == offset

\* A file is [readable, bytes, decodes, map]: whether File::open succeeds, its
\* first bytes (at most two are looked at), whether the codec accepts the
\* stream when it reads it from byte 0 with the decoder matching its envelope,
\* and the document it then returns.
ReadNbtFile(file) ==
    IF ~file.readable
    THEN [ok |-> FALSE, step |-> "open", buffer |-> <<>>, decoder |-> "", pos |-> 0,
          map |-> <<>>]
    ELSE IF Len(file.bytes) < Len(GZIP_SIGNATURE)
    THEN [ok |-> FALSE, step |-> "read_exact", buffer |-> <<>>, decoder |-> "",
          pos |-> Len(file.bytes), map |-> <<>>]
    ELSE LET buffer == SubSeq(file.bytes, 1, Len(GZIP_SIGNATURE))
             pos == SeekStart(Len(buffer), 0)
             decoder == SniffDecoder(buffer)
             decoded == file.decodes /\ pos = 0
         IN  [ok |-> decoded, step |-> "decode", buffer |-> buffer, decoder |-> decoder,
              pos |-> pos, map |-> IF decoded THEN file.map ELSE <<>>]

-----------------------------------------------------------------------------
(* The dock layout: egui_dock's DockState, one leaf on the main surface *)

\* DockState::new(tabs)
DockNew(ts) == [tabs |-> ts, active |-> 0]

\* DockState::find_tab: <<>> for None, <<i>> for the first slot holding the title.
FindTab(dock, title) ==
    LET hits == { i \in 1..Len(dock.tabs) : dock.tabs[i] = title } IN
    IF hits = {} THEN <<>>
    ELSE <<(CHOOSE i \in hits : \A j \in hits : i <= j) - 1>>

\* set_active_tab that leaves the active tab as it is.
SetActiveTabIgnored(dock, tab_location) == dock

\* DockState::set_active_tab
SetActiveTab(dock, tab_location) == [dock EXCEPT !.active = tab_location]

\* DockState::push_to_focused_leaf: the tab is appended and becomes active.
PushToFocusedLeaf(dock, tab) ==
    [tabs |-> Append(dock.tabs, tab), active |-> Len(dock.tabs)]

-----------------------------------------------------------------------------
(* The document set *)

\* An insert that starts a new map, as Tabs::new does.
InsertIntoNew(bufs, title, contents) == [t \in {title} |-> contents]

\* BTreeMap::insert
Insert(bufs, title, contents) ==
    [t \in DOMAIN bufs \cup {title} |-> IF t = title THEN contents ELSE bufs[t]]

\* The byte order of the titles used, which is the order BTreeMap iterates in.
TitleOrder == <<"A.dat", "Testing", "Untitled", "b.dat">>

TitleIndex(title) == CHOOSE i \in 1..Len(TitleOrder) : TitleOrder[i] = title

\* The 1-based position of a title among the keys of the map.
Rank(title, keys) ==
    Cardinality({ k \in keys : TitleIndex(k) <= TitleIndex(title) })

\* add_tab: [buffers, state] after the call.
AddTab(bufs, dock, title, contents) ==
    LET inserted == Insert(bufs, title, contents)
        rebuilt == DockNew(Append(dock.tabs, title))
        tab_location == FindTab(rebuilt, title)
    IN  [buffers |-> inserted,
         state |-> IF tab_location # <<>>
                   THEN SetActiveTab(rebuilt, tab_location[1])
                   ELSE PushToFocusedLeaf(rebuilt, title)]

\* path.file_name(): the title of a picked file drops its directory.
FileName(path) == path.name

-----------------------------------------------------------------------------
(* One frame *)

\* The toolkit keeps open flags per parent Ui: all documents of the side panel
\* share one parent, each tab body has its own (egui_dock derives it from the tab).
SideScope == <<"side">>
TabScope(title) == <<"tab", title>>

\* update_side_panel: per document, in key order, a header that is open by
\* default and, when open, the document's tree under push_id(counter).
UpdateSidePanel(bufs, tog) ==
    [t \in DOMAIN bufs |->
        LET counter == Rank(t, DOMAIN bufs)
            header == <<IdU(counter)>>
            open == [scope |-> SideScope, id |-> header] \notin tog
        IN  [header |-> header, open |-> open,
             body |-> IF open
                      THEN PushNbtMap(bufs[t], <<IdU(counter)>>, counter,
                                      OpenIn(SideScope, tog))
                      ELSE <<>>]]

\* Tabs::ui for a tab whose document exists.
TabsUi(bufs, tab, tog) == PushNbtMap(bufs[tab], <<>>, 0, OpenIn(TabScope(tab), tog))

\* The headers a click can reach in a rendered frame.
Clickable(f) ==
    { [scope |-> SideScope, id |-> f.side[t].header] : t \in DOMAIN f.side }
    \cup UNION { { [scope |-> SideScope, id |-> f.side[t].body[i].id] :
                     i \in { j \in 1..Len(f.side[t].body) : f.side[t].body[j].kind = "region" } }
                 : t \in DOMAIN f.side }
    \cup { [scope |-> TabScope(f.tabTitle[1]), id |-> f.tab[i].id] :
             i \in { j \in 1..Len(f.tab) : f.tab[j].kind = "region" } }


-----------------------------------------------------------------------------
(* Inputs *)

\* The files the file dialog can return: the title is the base name alone.
Paths ==
    { [dir |-> "saves", name |-> "A.dat"], [dir |-> "backup", name |-> "A.dat"],
      [dir |-> "saves", name |-> "b.dat"] }

\* The documents the editor's files decode to.
DocTrees ==
    { <<>>,
      << <<"a", Scalar("Byte", "1")>> >>,
      << <<"a", List(<<Scalar("Short", "2")>>)>> >> }

\* The first bytes of a file: nothing, one byte, or two.
ByteValues == {0, 1, 10, 31, 94, 120, 139, 156, 218}

Prefixes ==
    { <<>> } \cup { <<a>> : a \in ByteValues }
    \cup { <<a, b>> : a \in ByteValues, b \in ByteValues }

EditorFiles ==
    [readable : BOOLEAN, bytes : { <<31>>, <<31, 139>>, <<120, 156>>, <<10, 0>> },
     decodes : BOOLEAN, map : DocTrees]

IngestFiles ==
    [readable : BOOLEAN, bytes : Prefixes, decodes : BOOLEAN, map : { <<>> }]

-----------------------------------------------------------------------------
(* Initial states *)

\* The events of update(): a click on Open, on a title, on a header, or none.
Event(op, title) == [op |-> op, title |-> title]
NoEvent == Event("none", "")

\* NBTEditor::default()
InitDefault ==
    /\ buffers = [t \in {"Untitled"} |-> <<>>]
    /\ state = DockNew(<<>>)
    /\ running = TRUE
    /\ toggled = {}
    /\ lastOpen = <<>>
    /\ lastOp = NoEvent
    /\ frame = <<>>

\* NBTEditor::new(file_path), for a file that decodes to any generated document.
InitNew ==
    /\ \E root \in Roots : buffers = [t \in {"Testing"} |-> root]
    /\ state = DockNew(<<"Testing">>)
    /\ running = TRUE
    /\ toggled = {}
    /\ lastOpen = <<>>
    /\ lastOp = NoEvent
    /\ frame = <<>>

-----------------------------------------------------------------------------
(* Actions: one call of update() each, with at most one user event in it.    *)
(* update() runs update_menu_bar, update_side_panel, update_central_panel    *)
(* and DockArea::show in this order, so an Open is drawn by the same call.   *)

\* The title Tabs::ui is called with: the active tab of the leaf, if any.
Shown(dock) == IF dock.tabs = <<>> THEN <<>> ELSE <<dock.tabs[dock.active + 1]>>

\* What update() draws: the side panel, and the active tab through Tabs::ui.
Render(bufs, dock, tog) ==
    [trees |-> bufs,
     side |-> UpdateSidePanel(bufs, tog),
     tabTitle |-> Shown(dock),
     tab |-> IF Shown(dock) = <<>> THEN <<>> ELSE TabsUi(bufs, Shown(dock)[1], tog)]

\* The drawing half of update(): self.buffers.get(tab).unwrap() in Tabs::ui
\* panics when the active tab's title has no document.
Draw(bufs, dock, tog) ==
    IF Shown(dock) # <<>> /\ Shown(dock)[1] \notin DOMAIN bufs
    THEN /\ running' = FALSE
         /\ frame' = frame
    ELSE /\ running' = TRUE
         /\ frame' = <<Render(bufs, dock, tog)>>

\* update() with no event.
Frame ==
    /\ running
    /\ lastOp' = NoEvent
    /\ UNCHANGED <<buffers, state, toggled, lastOpen>>
    /\ Draw(buffers, state, toggled)

\* File > New: info!("New"), nothing else.
New ==
    /\ running
    /\ lastOp' = NoEvent
    /\ UNCHANGED <<buffers, state, toggled, lastOpen>>
    /\ Draw(buffers, state, toggled)

\* File > Open: the dialog is cancelled, or a file is picked, read with
\* read_nbt_file(..).unwrap() and added with add_tab.
Open(files) ==
    /\ running
    /\ Len(state.tabs) < MaxTabs
    /\ \/ /\ lastOp' = NoEvent
          /\ UNCHANGED <<buffers, state, toggled, lastOpen>>
          /\ Draw(buffers, state, toggled)
       \/ \E path \in Paths, file \in files :
            LET nbt == ReadNbtFile(file)
                added == AddTab(buffers, state, FileName(path), nbt.map)
            IN  /\ lastOpen' = <<[bytes |-> file.bytes, ok |-> nbt.ok, step |-> nbt.step, buffer |-> nbt.buffer,
                                  decoder |-> nbt.decoder, pos |-> nbt.pos]>>
                /\ lastOp' = Event("open", FileName(path))
                /\ toggled' = toggled
                /\ IF nbt.ok
                   THEN /\ buffers' = added.buffers
                        /\ state' = added.state
                        /\ Draw(added.buffers, added.state, toggled)
                   ELSE /\ running' = FALSE
                        /\ UNCHANGED <<buffers, state, frame>>

\* update_central_panel: the entry of `title` is clicked.
Activate(title) ==
    /\ running
    /\ title \in DOMAIN buffers
    /\ LET tab_location == FindTab(state, title)
           next == IF tab_location # <<>>
                   THEN SetActiveTab(state, tab_location[1])
                   ELSE PushToFocusedLeaf(state, title)
       IN  /\ state' = next
           /\ Draw(buffers, next, toggled)
    /\ lastOp' = Event("activate", title)
    /\ UNCHANGED <<buffers, toggled, lastOpen>>

\* A click on a header that is on screen flips its open flag, and the same
\* update() draws the body accordingly.
Toggle(key) ==
    /\ running
    /\ frame # <<>>
    /\ key \in Clickable(frame[1])
    /\ LET flipped == (toggled \ {key}) \cup ({key} \ toggled) IN
       /\ Cardinality(flipped) <= MaxToggled
       /\ toggled' = flipped
       /\ Draw(buffers, state, flipped)
    /\ lastOp' = Event("toggle", "")
    /\ UNCHANGED <<buffers, state, lastOpen>>

ToggleAny ==
    /\ frame # <<>>
    /\ \E key \in Clickable(frame[1]) : Toggle(key)

ActivateAny == \E title \in DOMAIN buffers : Activate(title)

-----------------------------------------------------------------------------
(* Specifications *)

\* The editor: documents are opened, activated and drawn.
Init == InitDefault
Next == Frame \/ New \/ Open(EditorFiles) \/ ActivateAny \/ ToggleAny
Spec == Init /\ [][Next]_vars

\* The walker over every generated document.
NextWalk == Frame \/ ToggleAny
SpecWalk == InitNew /\ [][NextWalk]_vars

\* read_nbt_file over every prefix.
NextIngest == Open(IngestFiles)
SpecIngest == InitDefault /\ [][NextIngest]_vars


-----------------------------------------------------------------------------
(* Vocabulary of the properties *)

\* The children of a value, as <<name, value>>: list and array elements are unnamed.
Children(v) ==
    CASE v.tag = "List" -> [i \in 1..Len(v.list) |-> <<"", v.list[i]>>]
      [] v.tag = "Compound" -> v.map
      [] v.tag \in ArrayTags ->
            [i \in 1..Len(v.elems) |-> <<"", Scalar("Element", ToString(v.elems[i]))>>]
      [] OTHER -> <<>>

\* The document as a value: the unnamed root compound.
RootOf(map) == Compound(map)

RECURSIVE EntryAt(_, _)
\* The <<name, value>> found at a path below a value.
EntryAt(entry, path) ==
    IF path = <<>> THEN entry
    ELSE EntryAt(Children(entry[2])[Head(path)], Tail(path))

NodeAt(map, path) == EntryAt(<<"", RootOf(map)>>, path)[2]
NameAt(map, path) == EntryAt(<<"", RootOf(map)>>, path)[1]

RECURSIVE PathsBelow(_, _)
\* The paths of all descendants of the value at `path`.
PathsBelow(v, path) ==
    UNION { {path \o <<i>>} \cup PathsBelow(Children(v)[i][2], path \o <<i>>)
            : i \in 1..Len(Children(v)) }

\* Every key, list element and array element of a document, at every depth.
AllPaths(map) == PathsBelow(RootOf(map), <<>>)

\* p comes before q in a depth-first walk that takes children in stored order.
Before(p, q) ==
    \/ Len(p) < Len(q) /\ SubSeq(q, 1, Len(p)) = p
    \/ \E k \in 1..Len(p) :
         /\ k <= Len(q)
         /\ SubSeq(p, 1, k - 1) = SubSeq(q, 1, k - 1)
         /\ p[k] < q[k]

\* The traversals of the frame on screen: the active tab's, and one per
\* document whose side-panel header is open.
Traversals ==
    IF frame = <<>> THEN {}
    ELSE LET f == frame[1] IN
         (IF f.tabTitle = <<>> THEN {}
          ELSE { [view |-> "tab", doc |-> f.tabTitle[1], map |-> f.trees[f.tabTitle[1]],
                  instrs |-> f.tab, open |-> OpenIn(TabScope(f.tabTitle[1]), toggled)] })
         \cup { [view |-> "side", doc |-> t, map |-> f.trees[t],
                 instrs |-> f.side[t].body, open |-> OpenIn(SideScope, toggled)]
                : t \in { u \in DOMAIN f.side : f.side[u].open } }

PathsOf(instrs) == { instrs[i].path : i \in 1..Len(instrs) }

\* q is the path of a descendant of the node at p.
Below(p, q) == Len(p) < Len(q) /\ SubSeq(q, 1, Len(p)) = p

\* Each node is visited at most once, and the visits follow the stored order.
OnceInOrder(instrs) ==
    \A i, j \in 1..Len(instrs) : i < j => Before(instrs[i].path, instrs[j].path)

IsContainer(v) == v.tag \in {"List", "Compound"}
IsEmptyContainer(v) == IsContainer(v) /\ Children(v) = <<>>

-----------------------------------------------------------------------------
(* C1 *)

AllExpanded(t) ==
    \A i \in 1..Len(t.instrs) : t.instrs[i].kind = "region" => t.instrs[i].id \in t.open

\* C1: within one traversal with every region expanded, no two distinct nodes
\* receive the same identity (the chain of pushed ids, plus the label for a region).
C1_IdentityUnique ==
    \A t \in Traversals :
        AllExpanded(t) =>
            \A i, j \in 1..Len(t.instrs) :
                t.instrs[i].path # t.instrs[j].path => t.instrs[i].id # t.instrs[j].id

-----------------------------------------------------------------------------
(* C5 *)

\* C5 as stated: one traversal visits every key and element of the document
\* exactly once, at every depth, in stored order.
C5_VisitsEveryNode ==
    \A t \in Traversals :
        /\ PathsOf(t.instrs) = AllPaths(t.map)
        /\ OnceInOrder(t.instrs)

\* C5 amended: one traversal visits exactly once and in stored order every
\* root entry, every element of a visited array and every child of a visited
\* region that is expanded; it visits no child of a collapsed region.
C5_VisitsEveryShownNode ==
    \A t \in Traversals :
        /\ OnceInOrder(t.instrs)
        /\ \A i \in 1..Len(t.map) : <<i>> \in PathsOf(t.instrs)
        /\ \A i \in 1..Len(t.instrs) :
             LET at == t.instrs[i]
                 kids == { at.path \o <<k>> : k \in 1..Len(Children(NodeAt(t.map, at.path))) }
             IN  /\ at.path \in AllPaths(t.map)
                 /\ at.kind = "array" => kids \subseteq PathsOf(t.instrs)
                 /\ at.kind = "region" /\ at.id \in t.open => kids \subseteq PathsOf(t.instrs)
                 /\ at.kind = "region" /\ at.id \notin t.open =>
                        kids \cap PathsOf(t.instrs) = {}

\* A traversal that has gone into an expanded region and past a collapsed
\* one that has children.
C5_Witness ==
    \E t \in Traversals : \E i, j \in 1..Len(t.instrs) :
        /\ Len(t.instrs[i].path) > 1
        /\ t.instrs[j].kind = "region"
        /\ t.instrs[j].id \notin t.open
        /\ Children(NodeAt(t.map, t.instrs[j].path)) # <<>>

-----------------------------------------------------------------------------
(* C8 *)

\* The label the walker gives a container named `name`.
ExpectedLabel(name, v) ==
    IF name # "" THEN name \o ": "
    ELSE IF v.tag = "Compound" THEN ToString(Len(v.map)) \o " entries"
    ELSE ""

\* The nodes a traversal has to draw: root entries, and the children of the
\* expanded regions and of the arrays it has drawn.
Due(t) ==
    { <<i>> : i \in 1..Len(t.map) }
    \cup UNION { { t.instrs[i].path \o <<k>> :
                     k \in 1..Len(Children(NodeAt(t.map, t.instrs[i].path))) }
                 : i \in { j \in 1..Len(t.instrs) :
                             t.instrs[j].kind = "region" => t.instrs[j].id \in t.open } }

\* C8 as stated: every empty Compound, named or not, is drawn as a region
\* whose label reports the entry count 0, and every empty List as a region.
C8_EmptyCompoundShowsCount ==
    \A t \in Traversals : \A p \in Due(t) :
        IsEmptyContainer(NodeAt(t.map, p)) =>
            \E i \in 1..Len(t.instrs) :
                /\ t.instrs[i].path = p
                /\ t.instrs[i].kind = "region"
                /\ NodeAt(t.map, p).tag = "Compound" => t.instrs[i].text = "0 entries"

\* C8 amended: every empty Compound or List the traversal reaches is drawn as
\* a region without child lines; the label is "0 entries" for an unnamed
\* Compound, the name followed by ": " for a named Compound or List, and
\* empty for an unnamed List.
C8_EmptyContainerDrawn ==
    \A t \in Traversals : \A p \in Due(t) :
        IsEmptyContainer(NodeAt(t.map, p)) =>
            /\ \E i \in 1..Len(t.instrs) :
                 /\ t.instrs[i].path = p
                 /\ t.instrs[i].kind = "region"
                 /\ t.instrs[i].text = ExpectedLabel(NameAt(t.map, p), NodeAt(t.map, p))
            /\ \A j \in 1..Len(t.instrs) : ~Below(p, t.instrs[j].path)

\* An unnamed and a named empty Compound and an empty List are on screen.
C8_Witness ==
    \E t \in Traversals : \E i, j \in 1..Len(t.instrs) :
        /\ t.instrs[i].text = "0 entries"
        /\ IsEmptyContainer(NodeAt(t.map, t.instrs[j].path))
        /\ NameAt(t.map, t.instrs[j].path) # ""


-----------------------------------------------------------------------------
(* C2 *)

FailedOpen(o) == o # <<>> /\ ~o[1].ok

\* C2: a failed Open leaves the document set and the tab layout as they were,
\* and the editor keeps running.
C2_FailedOpenLeavesEditorRunning ==
    [][FailedOpen(lastOpen') =>
          /\ buffers' = buffers
          /\ state' = state
          /\ running']_vars

-----------------------------------------------------------------------------
(* C3 *)

\* C3: no step loses a stored tree: every tree held before the step is still
\* held after it, under the same or another title.
C3_NoSilentOverwrite ==
    [][\A t \in DOMAIN buffers : \E u \in DOMAIN buffers' : buffers'[u] = buffers[t]]_vars

-----------------------------------------------------------------------------
(* C4 *)

\* C4: the decoder is chosen from the first two bytes alone: 1f 8b is gzip,
\* 78 01 / 78 5e / 78 9c / 78 da are zlib, everything else is raw, and the
\* decoder is called at stream position 0.
C4_SniffRouting ==
    (lastOpen # <<>> /\ lastOpen[1].step = "decode") =>
        LET b == lastOpen[1].bytes IN
        /\ lastOpen[1].decoder =
              (IF b = <<31, 139>> THEN "gzip"
               ELSE IF b \in { <<120, 1>>, <<120, 94>>, <<120, 156>>, <<120, 218>> } THEN "zlib"
               ELSE "raw")
        /\ lastOpen[1].pos = 0

\* A zlib file has been opened and decoded.
C4_Witness ==
    /\ lastOpen # <<>>
    /\ lastOpen[1].ok
    /\ lastOpen[1].decoder = "zlib"
    /\ "A.dat" \in DOMAIN buffers

-----------------------------------------------------------------------------
(* C6 *)

\* The nodes two drawings of one document have in common carry the same id.
SameIds(old, new) ==
    \A i \in 1..Len(old) : \A j \in 1..Len(new) :
        old[i].path = new[j].path => old[i].id = new[j].id

\* C6: a document whose tree is unchanged gets the same node identities in
\* consecutive frames, in the side panel and in its tab, also when another
\* document is opened in between.
C6_IdentityStable ==
    [][(frame # <<>> /\ frame' # <<>>) =>
          LET old == frame[1]
              new == frame'[1]
          IN  \A t \in DOMAIN old.trees \cap DOMAIN new.trees :
                old.trees[t] = new.trees[t] =>
                    /\ SameIds(old.side[t].body, new.side[t].body)
                    /\ (old.tabTitle = <<t>> /\ new.tabTitle = <<t>>) =>
                         SameIds(old.tab, new.tab)]_vars

-----------------------------------------------------------------------------
(* C7 *)

Placed(dock, title) == \E i \in 1..Len(dock.tabs) : dock.tabs[i] = title

\* C7: activating a title never fails and never changes the document set; a
\* placed title becomes the active tab and no slot is added, an unplaced one
\* is appended to the leaf's tabs; either way the title is placed afterwards.
C7_ActivatePlaces ==
    [][\A title \in DOMAIN buffers :
          lastOp' = Event("activate", title) =>
              /\ running'
              /\ buffers' = buffers
              /\ Placed(state', title)
              /\ Placed(state, title) =>
                    /\ state'.tabs = state.tabs
                    /\ state'.tabs[state'.active + 1] = title
              /\ ~Placed(state, title) => state'.tabs = Append(state.tabs, title)]_vars

\* An activation has moved the active tab back to an earlier slot, and the
\* untitled document, which only an activation can place, is placed.
C7_Witness ==
    /\ lastOp.op = "activate"
    /\ Placed(state, "Untitled")
    /\ Len(state.tabs) > 1
    /\ state.active + 1 < Len(state.tabs)
    /\ state.tabs[state.active + 1] = lastOp.title

-----------------------------------------------------------------------------
(* C9 *)

\* C9: every title in a tab slot is a key of the document set, the lookup in
\* Tabs::ui never fails (only a failed Open stops the editor), and no step
\* removes a key.
C9_TabsHaveDocuments ==
    [][/\ \A i \in 1..Len(state'.tabs) : state'.tabs[i] \in DOMAIN buffers'
       /\ DOMAIN buffers \subseteq DOMAIN buffers'
       /\ running' \/ FailedOpen(lastOpen')]_vars

\* Three documents are open, placed and drawn.
C9_Witness ==
    /\ Cardinality(DOMAIN buffers) > 2
    /\ \A t \in DOMAIN buffers : Placed(state, t)
    /\ frame # <<>>
    /\ frame[1].tabTitle # <<>>
    /\ DOMAIN frame[1].trees = DOMAIN buffers

-----------------------------------------------------------------------------
(* C10 *)

\* C10: each title holds at most one tab slot; right after add_tab(title, ..)
\* the active slot holds title and the tabs placed before are still there, in
\* the same order.
C10_OneSlotPerTitle ==
    [][/\ \A i, j \in 1..Len(state'.tabs) : state'.tabs[i] = state'.tabs[j] => i = j
       /\ (lastOp'.op = "open" /\ lastOpen'[1].ok) =>
             /\ state'.tabs[state'.active + 1] = lastOp'.title
             /\ SubSeq(state'.tabs, 1, Len(state.tabs)) = state.tabs]_vars

=============================================================================
